---- MODULE Spec2Model ----
(***************************************************************************)
(* jsoncolor: a colorizing re-renderer of encoded JSON.                    *)
(*                                                                         *)
(* src/jsoncolor.go holds two revisions of the package, one after the      *)
(* other.  Revision 1 is lines 1-329 (Marshal, MarshalIndent, marshal,     *)
(* separators written with fmt.Fprint), revision 2 is lines 331-717        *)
(* (MarshalIndent only, separators written through printSpace, printComma  *)
(* and printColon).  Both are modelled; the variable revision says which   *)
(* one a run executes.  Definitions that end in 1 or 2 model the code of   *)
(* that revision, the others model code that is the same in both.          *)
(*                                                                         *)
(* Bytes are modelled as one-character strings.  The input src is kept as  *)
(* a sequence of lexemes (each a sequence of characters), the output dst   *)
(* as a flat sequence of characters.  A color escape sequence is one       *)
(* character of dst.                                                       *)
(***************************************************************************)
EXTENDS Naturals, Sequences, FiniteSets, TLC

VARIABLES
    revision,   \* 1: the code of lines 1-329, 2: the code of lines 331-717
    entry,      \* the exported function called: Marshal, MarshalIndent, Format
    Prefix,     \* Formatter.Prefix
    Indent,     \* Formatter.Indent
    src,        \* the bytes handed to Format, lexeme by lexeme
    pos,        \* the decoder's read offset: lexemes of src consumed so far
    dst,        \* the destination buffer
    dst0,       \* what dst held when Format was called
    heap,       \* the frame objects allocated so far (a *frame is an index)
    frames,     \* formatterState.frames: the stack of *frame
    frame,      \* the local variable frame of format
    indent,     \* formatterState.indent: the cached indentation string
    pc,         \* "loop": in the for loop of format; "done"; "error"
    result,     \* what the entry function returned
    self,       \* which call the variables above belong to: 1 or 2
    parked      \* the suspended call, when two calls share the Formatter

vars == << revision, entry, Prefix, Indent, src, pos, dst, dst0, heap, frames,
           frame, indent, pc, result, self, parked >>

\* ---------------------------------------------------------------- bounds

MaxDepth == 3
MaxElems == 2

\* ------------------------------------------------------- sequence helpers

RECURSIVE Repeat(_, _)
\* strings.Repeat
Repeat(s, n) == IF n = 0 THEN << >> ELSE s \o Repeat(s, n - 1)

RECURSIVE Flatten(_)
Flatten(ss) == IF ss = << >> THEN << >> ELSE Head(ss) \o Flatten(Tail(ss))

IsPrefixOf(s, t) == Len(s) <= Len(t) /\ SubSeq(t, 1, Len(s)) = s

\* ------------------------------------------------------------ JSON text

Quote(s) == <<"\"">> \o s \o <<"\"">>

LBrace == <<"{">>
RBrace == <<"}">>
LBrack == <<"[">>
RBrack == <<"]">>
Comma == <<",">>
Colon == <<":">>
Null == <<"n", "u", "l", "l">>
True == <<"t", "r", "u", "e">>
False == <<"f", "a", "l", "s", "e">>
One == <<"1">>
\* a byte no JSON value starts with
Garbage == <<"?">>

Opens == {LBrace, LBrack}
Closes == {RBrace, RBrack}
Strings == {Quote(<<"a">>), Quote(<<"%">>)}
Scalars == {Null, True, False, One} \cup Strings
\* the scalars used below the top level
Inner == {One} \cup Strings
\* the scalars used as siblings of a nested value
Thin == {Null}
FieldNames == <<Quote(<<"a">>), Quote(<<"b">>)>>

\* the sequences of at most n siblings
Tails(n) == UNION {[1..k -> Thin] : k \in 0..n}

\* an array: the elements are lexeme sequences
ArrayOf(elems) ==
    <<LBrack>> \o
    Flatten([i \in 1..Len(elems) |->
                (IF i = 1 THEN << >> ELSE <<Comma>>) \o elems[i]]) \o
    <<RBrack>>

\* an object: the i-th field is named FieldNames[i]
ObjectOf(elems) ==
    <<LBrace>> \o
    Flatten([i \in 1..Len(elems) |->
                (IF i = 1 THEN << >> ELSE <<Comma>>) \o
                <<FieldNames[((i - 1) % Len(FieldNames)) + 1], Colon>> \o elems[i]]) \o
    <<RBrace>>

Lift(t) == [i \in 1..Len(t) |-> <<t[i]>>]

\* the containers over the values of vs: empty, or one value of vs with up
\* to MaxElems-1 thin siblings before or after it
Level(vs) ==
    LET lists == {<< >>} \cup
                 {<<v>> \o Lift(t) : v \in vs, t \in Tails(MaxElems - 1)} \cup
                 {Lift(t) \o <<v>> : v \in vs, t \in Tails(MaxElems - 1)}
    IN  {ArrayOf(l) : l \in lists} \cup {ObjectOf(l) : l \in lists}

\* a container of kind k around v, followed by n thin siblings
Nest(k, n, v) ==
    LET l == <<v>> \o [i \in 1..n |-> <<Null>>]
    IN  IF k = "array" THEN ArrayOf(l) ELSE ObjectOf(l)

Nestings == {"array", "object"} \X (0..(MaxElems - 1))

RECURSIVE Spine(_, _, _, _)
\* v nested d deep, in containers that alternate between w1 and w2
Spine(d, w1, w2, v) ==
    IF d = 0 THEN v ELSE Nest(w1[1], w1[2], Spine(d - 1, w2, w1, v))

\* what json.Marshal can return, one well-formed document: a scalar, a
\* container, a container of containers, or a scalar nested up to MaxDepth deep
Docs ==
    {<<s>> : s \in Scalars} \cup
    Level({<<s>> : s \in Inner} \cup Level({<<s>> : s \in Inner})) \cup
    {Spine(d, w1, w2, <<s>>) : d \in 1..MaxDepth, w1 \in Nestings, w2 \in Nestings,
                              s \in Inner}

\* documents with a malformed byte in place of one lexeme
BadDocs ==
    UNION {{[d EXCEPT ![i] = Garbage] : i \in 1..Len(d)} :
              d \in {<<One>>, ArrayOf(<<<<One>>, <<Null>>>>), ObjectOf(<<<<One>>>>)}}

\* ------------------------------------------------- encoding/json.Decoder

RECURSIVE SkipSeparators(_, _)
\* Token consumes the commas and colons in front of the next token
SkipSeparators(s, p) ==
    IF p < Len(s) /\ s[p + 1] \in {Comma, Colon} THEN SkipSeparators(s, p + 1) ELSE p

\* the json.Token of a lexeme: a string token holds the unquoted text
TokenOf(lex) ==
    IF lex \in Opens \cup Closes THEN [kind |-> "delim", text |-> lex]
    ELSE IF Head(lex) = "\"" THEN [kind |-> "string", text |-> SubSeq(lex, 2, Len(lex) - 1)]
    ELSE IF lex = Null THEN [kind |-> "null", text |-> lex]
    ELSE IF lex \in {True, False} THEN [kind |-> "bool", text |-> lex]
    ELSE [kind |-> "number", text |-> lex]

\* Token as it would be if it returned the next token without consuming it
Token_peek(s, p) ==
    LET q == SkipSeparators(s, p) IN
    IF q >= Len(s) THEN [err |-> "EOF", tok |-> TokenOf(Null), pos |-> q]
    ELSE IF s[q + 1] = Garbage
         THEN [err |-> "invalid character", tok |-> TokenOf(Null), pos |-> q]
         ELSE [err |-> "nil", tok |-> TokenOf(s[q + 1]), pos |-> q]

\* dec.Token(): the error, the token and the offset after it
Token(s, p) ==
    LET q == SkipSeparators(s, p) IN
    IF q >= Len(s) THEN [err |-> "EOF", tok |-> TokenOf(Null), pos |-> q]
    ELSE IF s[q + 1] = Garbage
         THEN [err |-> "invalid character", tok |-> TokenOf(Null), pos |-> q]
         ELSE [err |-> "nil", tok |-> TokenOf(s[q + 1]), pos |-> q + 1]

\* More as it would be if it only looked for the end of the input
More_toEnd(s, p) == p < Len(s)

\* dec.More(): the next byte exists and is neither ']' nor '}'
More(s, p) == p < Len(s) /\ s[p + 1] \notin Closes

\* ------------------------------------------------------------- frames

RootFrame == [object |-> FALSE, field |-> FALSE, array |-> FALSE, empty |-> FALSE,
              indent |-> 0]

inArray(f) == f.array
inObject(f) == f.object
inArrayOrObject(f) == f.object \/ f.array
inField(f) == f.object /\ f.field
isEmpty(f) == (f.object \/ f.array) /\ f.empty

\* toggleField as it would be if it left the frame as it is
toggleField_stuck(h, p) == h

\* frame.toggleField() on the frame object p, when that frame is an object
toggleField(h, p) == IF inObject(h[p]) THEN [h EXCEPT ![p].field = ~@] ELSE h

\* fs.frame(): the top of the stack
TopFrame(fr) == fr[Len(fr)]

\* enterFrame as it would be if the new frame never recorded emptiness
enterFrame_neverEmpty(h, fr, t, empty) ==
    LET new == [object |-> t = LBrace, field |-> FALSE, array |-> t = LBrack,
                empty |-> FALSE, indent |-> h[fr[Len(fr)]].indent + 1]
    IN  [heap |-> Append(h, new), frames |-> Append(fr, Len(h) + 1),
         frame |-> TopFrame(Append(fr, Len(h) + 1))]

\* enterFrame as it would be if it built the frame and did not push it
enterFrame_noPush(h, fr, t, empty) ==
    LET new == [object |-> t = LBrace, field |-> FALSE, array |-> t = LBrack,
                empty |-> empty, indent |-> h[fr[Len(fr)]].indent + 1]
    IN  [heap |-> Append(h, new), frames |-> fr, frame |-> TopFrame(fr)]

\* enterFrame as it would be if the new frame took its parent's depth
enterFrame_flat(h, fr, t, empty) ==
    LET new == [object |-> t = LBrace, field |-> FALSE, array |-> t = LBrack,
                empty |-> empty, indent |-> h[fr[Len(fr)]].indent]
    IN  [heap |-> Append(h, new), frames |-> Append(fr, Len(h) + 1),
         frame |-> TopFrame(Append(fr, Len(h) + 1))]

\* enterFrame as it would be if it returned the frame that was on top
\* before the push
enterFrame_returnsParent(h, fr, t, empty) ==
    LET new == [object |-> t = LBrace, field |-> FALSE, array |-> t = LBrack,
                empty |-> empty, indent |-> h[fr[Len(fr)]].indent + 1]
    IN  [heap |-> Append(h, new), frames |-> Append(fr, Len(h) + 1),
         frame |-> TopFrame(fr)]

\* fs.enterFrame(t, empty): the heap and stack after the push, and the
\* frame it returns, fs.frame()
enterFrame(h, fr, t, empty) ==
    LET new == [object |-> t = LBrace, field |-> FALSE, array |-> t = LBrack,
                empty |-> empty, indent |-> h[fr[Len(fr)]].indent + 1]
    IN  [heap |-> Append(h, new), frames |-> Append(fr, Len(h) + 1),
         frame |-> TopFrame(Append(fr, Len(h) + 1))]

\* leaveFrame as it would be if it returned the top frame without popping it
leaveFrame_keep(fr) == fr

\* fs.leaveFrame(): the stack after the pop
leaveFrame(fr) == SubSeq(fr, 1, Len(fr) - 1)

\* -------------------------------------------------------------- colors

\* the escape sequence color.New(...) writes in front of a text
Escape == [object |-> "ESC[37;1m", array |-> "ESC[37;1m", field |-> "ESC[34;1m",
           string |-> "ESC[32m", true |-> "ESC[37m", false |-> "ESC[37m",
           number |-> "ESC[37m", null |-> "ESC[30;1m", comma |-> "ESC[37m",
           colon |-> "ESC[37m"]
Reset == "ESC[0m"
Escapes == {Escape[c] : c \in DOMAIN Escape} \cup {Reset}

\* Color.wrap
Wrap(cat, text) == <<Escape[cat]>> \o text \o <<Reset>>

Missing == <<"(", "M", "I", "S", "S", "I", "N", "G", ")">>
NoVerb == <<"(", "N", "O", "V", "E", "R", "B", ")">>

RECURSIVE Sprintf(_)
\* fmt.Sprintf(format) with no operands: %% is a percent sign, any other verb
\* has no operand (the texts formatted here hold no flag or width characters)
Sprintf(format) ==
    IF format = << >> THEN << >>
    ELSE IF Head(format) # "%" THEN <<Head(format)>> \o Sprintf(Tail(format))
    ELSE IF Len(format) = 1 THEN <<"%", "!">> \o NoVerb
    ELSE IF format[2] = "%" THEN <<"%">> \o Sprintf(Tail(Tail(format)))
    ELSE <<"%", "!", format[2]>> \o Missing \o Sprintf(Tail(Tail(format)))

\* the category of a delimiter, boolean, number or null token
CategoryOf(tok) ==
    IF tok.kind = "delim"
    THEN (IF tok.text \in {LBrace, RBrace} THEN "object" ELSE "array")
    ELSE IF tok.kind = "bool" THEN (IF tok.text = True THEN "true" ELSE "false")
    ELSE tok.kind

\* formatToken of revision 1: every text is the operand of a "%v" format
formatToken1(tok, top) ==
    IF tok.kind = "string"
    THEN (IF ~inField(top) THEN Wrap("string", Quote(tok.text))
                           ELSE Wrap("field", Quote(tok.text)))
    ELSE Wrap(CategoryOf(tok), tok.text)

\* formatToken of revision 2: delimiters, strings and null are the format
formatToken2(tok, top) ==
    IF tok.kind = "string"
    THEN (IF ~inField(top) THEN Wrap("string", Sprintf(Quote(tok.text)))
                           ELSE Wrap("field", Sprintf(Quote(tok.text))))
    ELSE IF tok.kind \in {"delim", "null"} THEN Wrap(CategoryOf(tok), Sprintf(tok.text))
    ELSE Wrap(CategoryOf(tok), tok.text)

\* printSpace of revision 2: DefaultSpaceColor has its color disabled
printSpace(s) == Sprintf(s)
printComma == Wrap("comma", Sprintf(<<",">>))
printColon == Wrap("colon", Sprintf(<<":">>))

\* fs.indent after printIndent at depth d
indentCache(ind, cache, d) ==
    IF d > 0 /\ Len(cache) < Len(ind) * d THEN Repeat(ind, d) ELSE cache

\* what printIndent of revision 1 writes at depth d
printIndent1(pfx, ind, cache, d) ==
    (IF Len(pfx) > 0 THEN pfx ELSE << >>) \o
    (IF d > 0 THEN SubSeq(indentCache(ind, cache, d), 1, Len(ind) * d) ELSE << >>)

\* what printIndent of revision 2 writes at depth d
printIndent2(pfx, ind, cache, d) ==
    (IF Len(pfx) > 0 THEN pfx ELSE << >>) \o
    (IF d > 0 THEN printSpace(SubSeq(indentCache(ind, cache, d), 1, Len(ind) * d))
              ELSE << >>)

\* the local printIndent of format: whether a string, number, boolean or
\* null read in the frame f is written after an indentation
printIndentFlag(kind, f) ==
    IF kind = "string" THEN ~inObject(f) \/ inField(f) ELSE inArray(f)

\* Fprint as it would be if the buffer were reset before each write
Fprint_reset(buf, text) == text

\* fmt.Fprint(dst, text): bytes.Buffer.Write appends text to the buffer
Fprint(buf, text) == buf \o text

\* ------------------------------------------------------- entry points

Prefixes == {<< >>, <<"p">>}
Indents == {<< >>, <<"i">>, <<" ", " ">>}
DefaultPrefix == << >>
DefaultIndent == <<" ", " ">>

\* the exported functions of each revision
Entries == [r \in {1, 2} |->
               IF r = 1 THEN {"Marshal", "MarshalIndent", "Format"}
                        ELSE {"MarshalIndent", "Format"}]

\* what Format's caller finds in dst: marshal hands it an empty buffer
Existing(e) == IF e = "Format" THEN <<"x">> ELSE << >>

NoResult == [bytes |-> << >>, nil |-> TRUE, err |-> "none"]

\* no second call
NoCall == [id |-> 0, entry |-> "none", src |-> << >>, pos |-> 0, dst |-> << >>,
           dst0 |-> << >>, heap |-> << >>, frames |-> << >>, frame |-> 0,
           indent |-> << >>, pc |-> "none", result |-> NoResult]

\* marshal as it would be if it returned the buffer along with the error
marshal_partial(buf, e) ==
    IF e # "nil" THEN [bytes |-> buf, nil |-> FALSE, err |-> e]
                 ELSE [bytes |-> buf, nil |-> FALSE, err |-> "nil"]

\* what marshal (revision 2: MarshalIndent) returns once Format returned e
marshal(buf, e) ==
    IF e # "nil" THEN [bytes |-> << >>, nil |-> TRUE, err |-> e]
                 ELSE [bytes |-> buf, nil |-> FALSE, err |-> "nil"]

\* what the entry function returns once format returned e with dst = buf
Return(en, buf, e) ==
    IF en = "Format" THEN [bytes |-> << >>, nil |-> TRUE, err |-> e]
                     ELSE marshal(buf, e)

\* the call has reached the loop of format: NewFormatter, the encoder's
\* bytes (marshal does not rely on their being well-formed: it checks
\* Format's error), newFormatterState and frame := fs.frame()
Init ==
    /\ revision \in {1, 2}
    /\ entry \in Entries[revision]
    /\ Prefix \in (IF entry = "Marshal" THEN {DefaultPrefix} ELSE Prefixes)
    /\ Indent \in (IF entry = "Marshal" THEN {DefaultIndent} ELSE Indents)
    /\ src \in Docs \cup BadDocs
    /\ pos = 0
    /\ dst0 = Existing(entry)
    /\ dst = dst0
    /\ heap = <<RootFrame>>
    /\ frames = <<1>>
    /\ frame = 1
    /\ indent = << >>
    /\ pc = "loop"
    /\ result = NoResult
    /\ self = 1
    /\ parked = NoCall

\* what no iteration of format writes: the Formatter, the arguments of the
\* call, and the other call
Config == << revision, entry, Prefix, Indent, src, dst0, self, parked >>

\* ------------------------------------------------- format, revision 1

\* the separator after a value or a closing delimiter
end1(f, more) == IF inArrayOrObject(f) /\ more THEN <<",", "\n">> ELSE <<"\n">>

\* an iteration on '{' or '['
format1_open ==
    /\ pc = "loop" /\ revision = 1
    /\ LET t == Token(src, pos)
           more == More(src, t.pos)
           lead == inObject(heap[frame])
           d == heap[TopFrame(frames)].indent
           e == enterFrame(heap, frames, t.tok.text, ~more)
       IN  /\ t.err = "nil" /\ t.tok.kind = "delim" /\ t.tok.text \in Opens
           /\ pos' = t.pos
           /\ dst' = Fprint(dst,
                     (IF lead THEN <<" ">> ELSE printIndent1(Prefix, Indent, indent, d)) \o
                     formatToken1(t.tok, heap[TopFrame(frames)]) \o
                     (IF more THEN <<"\n">> ELSE << >>))
           /\ indent' = IF lead THEN indent ELSE indentCache(Indent, indent, d)
           /\ frames' = e.frames
           /\ frame' = e.frame
           /\ heap' = toggleField(e.heap, e.frame)
    /\ UNCHANGED << Config, pc, result >>

\* an iteration on '}' or ']'
format1_close ==
    /\ pc = "loop" /\ revision = 1
    /\ LET t == Token(src, pos)
           end == end1(heap[frame], More(src, t.pos))
           empty == isEmpty(heap[frame])
           fr == leaveFrame(frames)
           d == heap[TopFrame(fr)].indent
       IN  /\ t.err = "nil" /\ t.tok.kind = "delim" /\ t.tok.text \in Closes
           \* fs.frame() panics on an empty stack: the iteration does not complete
           /\ Len(frames) > 1
           /\ pos' = t.pos
           /\ dst' = Fprint(dst,
                     (IF ~empty THEN printIndent1(Prefix, Indent, indent, d) ELSE << >>) \o
                     formatToken1(t.tok, heap[TopFrame(fr)]) \o end)
           /\ indent' = IF ~empty THEN indentCache(Indent, indent, d) ELSE indent
           /\ frames' = fr
           /\ frame' = TopFrame(fr)
           /\ heap' = toggleField(heap, TopFrame(fr))
    /\ UNCHANGED << Config, pc, result >>

\* an iteration on a string, number, boolean or null
format1_value ==
    /\ pc = "loop" /\ revision = 1
    /\ LET t == Token(src, pos)
           f == heap[frame]
           isString == t.tok.kind = "string"
           end == IF isString /\ inField(f) THEN <<":", " ">>
                                            ELSE end1(f, More(src, t.pos))
           doIndent == printIndentFlag(t.tok.kind, f)
           d == heap[TopFrame(frames)].indent
       IN  /\ t.err = "nil" /\ t.tok.kind # "delim"
           /\ pos' = t.pos
           /\ dst' = Fprint(dst,
                     (IF doIndent THEN printIndent1(Prefix, Indent, indent, d) ELSE << >>) \o
                     formatToken1(t.tok, heap[TopFrame(frames)]) \o end)
           /\ indent' = IF doIndent THEN indentCache(Indent, indent, d) ELSE indent
           /\ heap' = toggleField(heap, frame)
    /\ UNCHANGED << Config, frames, frame, pc, result >>

\* ------------------------------------------------- format, revision 2

\* an iteration on '{' or '['
format2_open ==
    /\ pc = "loop" /\ revision = 2
    /\ LET t == Token(src, pos)
           more == More(src, t.pos)
           lead == inObject(heap[frame])
           d == heap[TopFrame(frames)].indent
           e == enterFrame(heap, frames, t.tok.text, ~more)
       IN  /\ t.err = "nil" /\ t.tok.kind = "delim" /\ t.tok.text \in Opens
           /\ pos' = t.pos
           /\ dst' = Fprint(dst,
                     (IF lead THEN printSpace(<<" ">>)
                              ELSE printIndent2(Prefix, Indent, indent, d)) \o
                     formatToken2(t.tok, heap[TopFrame(frames)]) \o
                     (IF more THEN printSpace(<<"\n">>) ELSE << >>))
           /\ indent' = IF lead THEN indent ELSE indentCache(Indent, indent, d)
           /\ frames' = e.frames
           /\ frame' = e.frame
           /\ heap' = toggleField(e.heap, e.frame)
    /\ UNCHANGED << Config, pc, result >>

\* an iteration on '}' or ']'
format2_close ==
    /\ pc = "loop" /\ revision = 2
    /\ LET t == Token(src, pos)
           doComma == inArrayOrObject(heap[frame]) /\ More(src, t.pos)
           empty == isEmpty(heap[frame])
           fr == leaveFrame(frames)
           d == heap[TopFrame(fr)].indent
       IN  /\ t.err = "nil" /\ t.tok.kind = "delim" /\ t.tok.text \in Closes
           \* fs.frame() panics on an empty stack: the iteration does not complete
           /\ Len(frames) > 1
           /\ pos' = t.pos
           /\ dst' = Fprint(dst,
                     (IF ~empty THEN printIndent2(Prefix, Indent, indent, d) ELSE << >>) \o
                     formatToken2(t.tok, heap[TopFrame(fr)]) \o
                     (IF doComma THEN printComma ELSE << >>) \o
                     printSpace(<<"\n">>))
           /\ indent' = IF ~empty THEN indentCache(Indent, indent, d) ELSE indent
           /\ frames' = fr
           /\ frame' = TopFrame(fr)
           /\ heap' = toggleField(heap, TopFrame(fr))
    /\ UNCHANGED << Config, pc, result >>

\* an iteration on a string, number, boolean or null
format2_value ==
    /\ pc = "loop" /\ revision = 2
    /\ LET t == Token(src, pos)
           f == heap[frame]
           doComma == inArrayOrObject(f) /\ More(src, t.pos)
           doIndent == printIndentFlag(t.tok.kind, f)
           d == heap[TopFrame(frames)].indent
       IN  /\ t.err = "nil" /\ t.tok.kind # "delim"
           /\ pos' = t.pos
           /\ dst' = Fprint(dst,
                     (IF doIndent THEN printIndent2(Prefix, Indent, indent, d) ELSE << >>) \o
                     (IF ~inField(f) THEN printSpace(<<" ">>) ELSE << >>) \o
                     formatToken2(t.tok, heap[TopFrame(frames)]) \o
                     (IF inField(f) THEN printColon
                      ELSE (IF doComma THEN printComma ELSE << >>) \o printSpace(<<"\n">>)))
           /\ indent' = IF doIndent THEN indentCache(Indent, indent, d) ELSE indent
           /\ heap' = toggleField(heap, frame)
    /\ UNCHANGED << Config, frames, frame, pc, result >>

\* ------------------------------------------- the loop's exits, both revisions

\* dec.Token() returns io.EOF: format breaks and returns nil
format_EOF ==
    /\ pc = "loop"
    /\ Token(src, pos).err = "EOF"
    /\ pc' = "done"
    /\ pos' = Token(src, pos).pos
    /\ result' = Return(entry, dst, "nil")
    /\ UNCHANGED << Config, dst, heap, frames, frame, indent >>

\* dec.Token() returns another error: format returns it
format_TokenError ==
    /\ pc = "loop"
    /\ Token(src, pos).err \notin {"nil", "EOF"}
    /\ pc' = "error"
    /\ pos' = Token(src, pos).pos
    /\ result' = Return(entry, dst, Token(src, pos).err)
    /\ UNCHANGED << Config, dst, heap, frames, frame, indent >>

Next ==
    \/ format1_open
    \/ format1_close
    \/ format1_value
    \/ format2_open
    \/ format2_close
    \/ format2_value
    \/ format_EOF
    \/ format_TokenError

Spec == Init /\ [][Next]_vars

\* --------------------------------- two calls of Format on one Formatter

\* the state of the running call: its arguments, the locals of format and
\* the formatterState that newFormatterState made for it
Running ==
    [id |-> self, entry |-> entry, src |-> src, pos |-> pos, dst |-> dst,
     dst0 |-> dst0, heap |-> heap, frames |-> frames, frame |-> frame,
     indent |-> indent, pc |-> pc, result |-> result]

\* Resume as it would be if the formatterState were kept in the Formatter:
\* the resumed call finds the frames and the cache the other call left
Resume_sharedState(p, cur) ==
    [p EXCEPT !.heap = cur.heap, !.frames = cur.frames, !.indent = cur.indent]

\* Resume as it would be if the frames outlived a call in the Formatter
Resume_sharedFrames(p, cur) ==
    [p EXCEPT !.heap = cur.heap, !.frames = cur.frames]

\* the state a suspended call p resumes with, cur being the call that ran
\* meanwhile: Format gives every call a formatterState of its own
Resume(p, cur) == p

\* the scheduler suspends the running call and resumes the other one
Switch ==
    /\ parked.pc = "loop"
    /\ LET r == Resume(parked, Running)
       IN  /\ parked' = Running
           /\ self' = r.id
           /\ entry' = r.entry
           /\ src' = r.src
           /\ pos' = r.pos
           /\ dst' = r.dst
           /\ dst0' = r.dst0
           /\ heap' = r.heap
           /\ frames' = r.frames
           /\ frame' = r.frame
           /\ indent' = r.indent
           /\ pc' = r.pc
           /\ result' = r.result
    /\ UNCHANGED << revision, Prefix, Indent >>

\* the documents the two calls format
ConcDocs ==
    {<<Quote(<<"a">>)>>,
     ArrayOf(<<<<Quote(<<"a">>)>>, <<Null>>>>),
     ArrayOf(<<ArrayOf(<< >>)>>),
     ObjectOf(<<ArrayOf(<<<<One>>>>)>>),
     ArrayOf(<<ObjectOf(<<<<One>>>>), <<Null>>>>),
     <<LBrack, Garbage, RBrack>>}

\* a call of Format on src s with the buffer b, at the loop of format
NewCall(i, s, b) ==
    [id |-> i, entry |-> "Format", src |-> s, pos |-> 0, dst |-> b, dst0 |-> b,
     heap |-> <<RootFrame>>, frames |-> <<1>>, frame |-> 1, indent |-> << >>,
     pc |-> "loop", result |-> NoResult]

\* two goroutines have called Format on the same Formatter, each with a
\* buffer of its own
InitConc ==
    /\ revision \in {1, 2}
    /\ Prefix \in Prefixes
    /\ Indent \in Indents
    /\ \E s1 \in ConcDocs, s2 \in ConcDocs, b \in {<< >>, Existing("Format")} :
           /\ parked = NewCall(2, s2, b)
           /\ self = 1
           /\ entry = "Format"
           /\ src = s1
           /\ pos = 0
           /\ dst0 = b
           /\ dst = b
           /\ heap = <<RootFrame>>
           /\ frames = <<1>>
           /\ frame = 1
           /\ indent = << >>
           /\ pc = "loop"
           /\ result = NoResult

NextConc == Next \/ Switch

SpecConc == InitConc /\ [][NextConc]_vars

\* ---------------------------------------- format as a function of its state

\* one iteration of the loop of format on the call c, for the Formatter
\* (rev, pfx, ind): what the actions above do to the variables
Iterate(rev, pfx, ind, c) ==
    IF c.pc # "loop" THEN c
    ELSE
    LET t == Token(c.src, c.pos)
        more == More(c.src, t.pos)
        f == c.heap[c.frame]
        isOpen == t.tok.kind = "delim" /\ t.tok.text \in Opens
        isClose == t.tok.kind = "delim" /\ t.tok.text \in Closes
        isString == t.tok.kind = "string"
        paint(tok, top) == IF rev = 1 THEN formatToken1(tok, top)
                                      ELSE formatToken2(tok, top)
        indentAt(d) == IF rev = 1 THEN printIndent1(pfx, ind, c.indent, d)
                                  ELSE printIndent2(pfx, ind, c.indent, d)
        space(x) == IF rev = 1 THEN x ELSE printSpace(x)
        comma == IF rev = 1 THEN <<",">> ELSE printComma
        sep == (IF inArrayOrObject(f) /\ more THEN comma ELSE << >>) \o space(<<"\n">>)
    IN
    IF t.err = "EOF"
    THEN [c EXCEPT !.pc = "done", !.pos = t.pos,
                   !.result = Return(c.entry, c.dst, "nil")]
    ELSE IF t.err # "nil"
    THEN [c EXCEPT !.pc = "error", !.pos = t.pos,
                   !.result = Return(c.entry, c.dst, t.err)]
    ELSE IF isOpen
    THEN LET d == c.heap[TopFrame(c.frames)].indent
             e == enterFrame(c.heap, c.frames, t.tok.text, ~more)
         IN  [c EXCEPT
                 !.pos = t.pos,
                 !.dst = Fprint(c.dst,
                            (IF inObject(f) THEN space(<<" ">>) ELSE indentAt(d)) \o
                            paint(t.tok, c.heap[TopFrame(c.frames)]) \o
                            (IF more THEN space(<<"\n">>) ELSE << >>)),
                 !.indent = IF inObject(f) THEN c.indent
                                           ELSE indentCache(ind, c.indent, d),
                 !.frames = e.frames,
                 !.frame = e.frame,
                 !.heap = toggleField(e.heap, e.frame)]
    ELSE IF isClose
    THEN IF Len(c.frames) <= 1 THEN [c EXCEPT !.pc = "panic"]
         ELSE
         LET fr == leaveFrame(c.frames)
             d == c.heap[TopFrame(fr)].indent
         IN  [c EXCEPT
                 !.pos = t.pos,
                 !.dst = Fprint(c.dst,
                            (IF ~isEmpty(f) THEN indentAt(d) ELSE << >>) \o
                            paint(t.tok, c.heap[TopFrame(fr)]) \o sep),
                 !.indent = IF ~isEmpty(f) THEN indentCache(ind, c.indent, d)
                                           ELSE c.indent,
                 !.frames = fr,
                 !.frame = TopFrame(fr),
                 !.heap = toggleField(c.heap, TopFrame(fr))]
    ELSE LET d == c.heap[TopFrame(c.frames)].indent
             doIndent == printIndentFlag(t.tok.kind, f)
             after == IF rev = 1
                      THEN (IF isString /\ inField(f) THEN <<":", " ">> ELSE sep)
                      ELSE (IF inField(f) THEN printColon ELSE sep)
         IN  [c EXCEPT
                 !.pos = t.pos,
                 !.dst = Fprint(c.dst,
                            (IF doIndent THEN indentAt(d) ELSE << >>) \o
                            (IF rev = 2 /\ ~inField(f) THEN printSpace(<<" ">>)
                                                       ELSE << >>) \o
                            paint(t.tok, c.heap[TopFrame(c.frames)]) \o after),
                 !.indent = IF doIndent THEN indentCache(ind, c.indent, d)
                                        ELSE c.indent,
                 !.heap = toggleField(c.heap, c.frame)]

RECURSIVE RunAlone(_, _, _, _)
\* the call c run to its return with no other call in between
RunAlone(rev, pfx, ind, c) ==
    IF c.pc # "loop" THEN c ELSE RunAlone(rev, pfx, ind, Iterate(rev, pfx, ind, c))

\* every iteration of the running call is Iterate of its state
IterationIsIterate ==
    [][Running'.id = Running.id => Running' = Iterate(revision, Prefix, Indent, Running)]_vars

\* ---------------------------------------------- the reference encoders

\* a newline, the prefix and d copies of the indent unit (encoding/json)
StdNewline(pfx, ind, d) == <<"\n">> \o pfx \o Repeat(ind, d)

RECURSIVE StdIndentFrom(_, _, _, _, _, _)
\* json.Indent over the lexemes of s from the i-th on: need says that an
\* opening delimiter waits for its first element, d is the depth
StdIndentFrom(s, i, need, d, pfx, ind) ==
    IF i > Len(s) THEN << >>
    ELSE LET c == s[i]
             start == need /\ c \notin Closes
             d1 == IF start THEN d + 1 ELSE d
             need1 == need /\ ~start
             lead == IF start THEN StdNewline(pfx, ind, d1) ELSE << >>
         IN  IF c \in Opens
             THEN lead \o c \o StdIndentFrom(s, i + 1, TRUE, d1, pfx, ind)
             ELSE IF c = Comma
             THEN lead \o c \o StdNewline(pfx, ind, d1) \o
                  StdIndentFrom(s, i + 1, need1, d1, pfx, ind)
             ELSE IF c = Colon
             THEN lead \o c \o <<" ">> \o StdIndentFrom(s, i + 1, need1, d1, pfx, ind)
             ELSE IF c \in Closes
             THEN (IF need1 THEN c \o StdIndentFrom(s, i + 1, FALSE, d1, pfx, ind)
                   ELSE StdNewline(pfx, ind, d1 - 1) \o c \o
                        StdIndentFrom(s, i + 1, FALSE, d1 - 1, pfx, ind))
             ELSE lead \o c \o StdIndentFrom(s, i + 1, need1, d1, pfx, ind)

\* encoding/json's MarshalIndent of the value whose encoding is s
StdMarshalIndent(s, pfx, ind) == StdIndentFrom(s, 1, FALSE, 0, pfx, ind)

\* encoding/json's Marshal of the value whose encoding is s
StdMarshal(s) == Flatten(s)

\* ------------------------------------------------ reading the output

\* the text without its color escape sequences
Strip(text) == SelectSeq(text, LAMBDA c : c \notin Escapes)

\* what the call appended to dst, colors stripped
Output == Strip(SubSeq(dst, Len(dst0) + 1, Len(dst)))

\* format returned nil for a well-formed document
Finished == pc = "done" /\ src \in Docs

\* the characters of the prefix and of the indent unit, and the space
LeadChars == {Prefix[i] : i \in 1..Len(Prefix)} \cup {Indent[i] : i \in 1..Len(Indent)}
             \cup {" "}

RECURSIVE Lex(_, _)
\* the lexical tokens of text: skip holds the characters between tokens
Lex(text, skip) ==
    IF text = << >> THEN << >>
    ELSE LET c == Head(text) IN
         IF c \in skip THEN Lex(Tail(text), skip)
         ELSE IF c = "\""
         THEN LET ends == {j \in 2..Len(text) : text[j] = "\""}
                  e == IF ends = {} THEN Len(text)
                       ELSE CHOOSE j \in ends : \A k \in ends : j <= k
              IN  <<SubSeq(text, 1, e)>> \o Lex(SubSeq(text, e + 1, Len(text)), skip)
         ELSE IF \E w \in {Null, True, False} : IsPrefixOf(w, text)
         THEN LET w == CHOOSE w \in {Null, True, False} : IsPrefixOf(w, text)
              IN  <<w>> \o Lex(SubSeq(text, Len(w) + 1, Len(text)), skip)
         ELSE <<<<c>>>> \o Lex(Tail(text), skip)

\* the tokens the decoder delivers for s
TokensOf(s) == SelectSeq(s, LAMBDA l : l \notin {Comma, Colon})

RECURSIVE Lines(_)
\* text split at its newlines
Lines(text) ==
    LET nls == {j \in 1..Len(text) : text[j] = "\n"} IN
    IF nls = {} THEN <<text>>
    ELSE LET n == CHOOSE j \in nls : \A k \in nls : j <= k
         IN  <<SubSeq(text, 1, n - 1)>> \o Lines(SubSeq(text, n + 1, Len(text)))

\* ----------------------------------------------------------- claims

\* C1: the bytes MarshalIndent(V, P, I) returns, colors stripped, are the
\* bytes encoding/json's MarshalIndent returns for (V, P, I).
C1_MarshalIndentEqualsStd ==
    (Finished /\ entry = "MarshalIndent") =>
        /\ ~result.nil
        /\ Strip(result.bytes) = StdMarshalIndent(src, Prefix, Indent)

\* C2: the bytes Marshal(V) returns, colors stripped, are the bytes
\* encoding/json's Marshal returns for V.
C2_MarshalEqualsStd ==
    (Finished /\ entry = "Marshal") =>
        /\ ~result.nil
        /\ Strip(result.bytes) = StdMarshal(src)

\* C3: for a document that is one scalar, the stripped output of format is
\* the scalar's literal text and nothing else, for any prefix and indent.
C3_TopLevelScalarIsLiteral ==
    (Finished /\ Len(src) = 1 /\ src[1] \in Scalars) => Output = src[1]

\* C4: with a non-empty prefix, the output of format does not begin with
\* the prefix, every newline is followed by the prefix, and the prefix occurs
\* nowhere but right after a newline.
C4_PrefixOnlyAfterNewline ==
    (Finished /\ Prefix # << >>) =>
        LET o == Output
            at(i) == i + Len(Prefix) - 1 <= Len(o)
                     /\ SubSeq(o, i, i + Len(Prefix) - 1) = Prefix
        IN  /\ ~at(1)
            /\ \A i \in 1..Len(o) : o[i] = "\n" => at(i + 1)
            /\ \A i \in 2..Len(o) : at(i) => o[i - 1] = "\n"

RECURSIVE Where(_, _, _)
\* the indices i..Len(s) of s whose element is in set, in increasing order
Where(s, set, i) ==
    IF i > Len(s) THEN << >>
    ELSE (IF s[i] \in set THEN <<i>> ELSE << >>) \o Where(s, set, i + 1)

\* some container of src is empty and is an array element or a field value
HasNestedEmpty == \E j \in 2..(Len(src) - 1) : src[j] \in Opens /\ src[j + 1] \in Closes

\* C5: an empty object or array is rendered as its opening delimiter
\* immediately followed by its closing delimiter, at every nesting position
\* and for every prefix and indent unit: the k-th opening delimiter of the
\* output is followed at once by its closing delimiter whenever the k-th
\* container of the document is empty.
C5_EmptyContainerAdjacent ==
    Finished =>
        LET o == Output
            outOpen == Where(o, {"{", "["}, 1)
            srcOpen == Where(src, Opens, 1)
        IN  /\ Len(outOpen) = Len(srcOpen)
            /\ \A k \in 1..Len(srcOpen) :
                   src[srcOpen[k] + 1] \in Closes =>
                       /\ <<o[outOpen[k]]>> = src[srcOpen[k]]
                       /\ outOpen[k] < Len(o)
                       /\ <<o[outOpen[k] + 1]>> = src[srcOpen[k] + 1]

\* an empty container below the top level was formatted with a prefix and
\* an indent unit
C5_Witness ==
    Finished /\ HasNestedEmpty /\ Prefix # << >> /\ Indent # << >>

\* C6: the lexical tokens of the output of format, ignoring whitespace,
\* commas, colons and color, are the tokens the decoder delivered, in the
\* same order.
C6_TokensPreserved ==
    Finished => Lex(Output, LeadChars \cup {"\n", ",", ":"}) = TokensOf(src)

\* the number of containers open after the first n characters of text
DepthAfter(text, n) ==
    Cardinality({j \in 1..n : text[j] \in {"{", "["}}) -
    Cardinality({j \in 1..n : text[j] \in {"}", "]"}})

\* C7: every line of the output that starts with an array element or a field
\* name at depth d is the prefix, d copies of the indent unit and then, with
\* nothing in between, the token.
C7_ElementLineIndent ==
    Finished =>
        LET o == Output
            nls == Where(o, {"\n"}, 1)
        IN  \A k \in 1..Len(nls) :
                LET from == nls[k] + 1
                    rest == SubSeq(o, from, Len(o))
                    toks == Where(rest, {c \in {rest[j] : j \in 1..Len(rest)} :
                                            c \notin LeadChars}, 1)
                    first == IF toks = << >> THEN "\n" ELSE rest[toks[1]]
                    lead == Prefix \o Repeat(Indent, DepthAfter(o, nls[k]))
                IN  first \notin {"\n", "}", "]"} =>
                        /\ IsPrefixOf(lead, rest)
                        /\ toks[1] = Len(lead) + 1

\* C8: with indent unit "" and prefix "", the stripped output of format is
\* encoding/json's compact encoding of the same value.
C8_EmptyIndentIsCompact ==
    (Finished /\ Prefix = << >> /\ Indent = << >>) => Output = StdMarshal(src)

\* the lexemes of src in front of its malformed byte
BeforeGarbage == SubSeq(src, 1, Where(src, {Garbage}, 1)[1] - 1)

\* C9: when the decoder reports an error at a token, format has emitted the
\* tokens before it and nothing for it or after it, no further step is taken,
\* the decoder's error is returned unchanged, and Marshal and MarshalIndent
\* return it with no bytes.
C9_DecoderErrorReturned ==
    pc = "error" =>
        /\ src \in BadDocs
        /\ Lex(Output, LeadChars \cup {"\n", ",", ":"}) = TokensOf(BeforeGarbage)
        /\ result.err = "invalid character"
        /\ result.nil /\ result.bytes = << >>
        /\ ~ENABLED Next

\* MarshalIndent got the decoder's error after format had written output
C9_Witness ==
    pc = "error" /\ entry = "MarshalIndent" /\ Len(dst) > 0

\* C10: Format only appends to dst: no step changes a byte dst already
\* holds, so what dst held before the call stays in front, on success and on
\* error.
C10_AppendOnly ==
    [][IsPrefixOf(dst, dst') /\ IsPrefixOf(dst0, dst')]_vars

\* Format returned nil after appending to a buffer that was not empty
C10_Witness ==
    pc = "done" /\ entry = "Format" /\ dst0 # << >> /\ Len(dst) > Len(dst0) + 1

\* the return of the call c when no other call runs: the same arguments,
\* a formatterState fresh from newFormatterState
Alone(c) == RunAlone(revision, Prefix, Indent, NewCall(c.id, c.src, c.dst0))

\* the call c is where its run alone passes, and ends where that run ends
OnItsOwnPath(c) == RunAlone(revision, Prefix, Indent, c) = Alone(c)

\* C11: two Format calls running concurrently on one Formatter, each with a
\* buffer of its own, do not interfere under any interleaving of their token
\* steps: no step writes a field of the Formatter, a step of one call leaves
\* the frame stack, the indentation cache and the buffer of the other call
\* as they were, a suspended call resumes with exactly the state it was
\* suspended with, and each call returns the output and the error it returns
\* when run alone.
C11_NoInterference ==
    /\ [](OnItsOwnPath(Running) /\ OnItsOwnPath(parked))
    /\ [][/\ UNCHANGED << revision, Prefix, Indent >>
          /\ \/ self' = self /\ parked' = parked
             \/ Running' = parked /\ parked' = Running]_vars

\* one call has returned while the other, formatting another document that
\* opens a container, was suspended in the middle of it
C11_Witness ==
    /\ parked.id # 0
    /\ pc = "done"
    /\ parked.pc = "loop"
    /\ parked.pos > 0
    /\ Len(parked.frames) > 1
    /\ parked.src # src
    /\ Len(dst) > Len(dst0) + 1

\* two runs of Format on the same bytes, each from an empty buffer, that
\* have made the same number of iterations
SameProgress(c1, c2) ==
    /\ c1.id # 0 /\ c2.id # 0
    /\ c1.src = c2.src
    /\ c1.dst0 = << >> /\ c2.dst0 = << >>
    /\ c1.pos = c2.pos
    /\ c1.pc = c2.pc

\* C12: Format is deterministic: two runs on identical input bytes with the
\* same Formatter configuration, each from an empty buffer, are after the
\* same number of iterations in the same frame-stack state (the stack, its
\* frames, the current frame) and have written the same bytes, and they
\* return byte-identical output and the same error.
C12_Deterministic ==
    SameProgress(Running, parked) =>
        /\ frames = parked.frames
        /\ heap = parked.heap
        /\ frame = parked.frame
        /\ dst = parked.dst
        /\ result = parked.result

\* both runs of the same nested document have returned
C12_Witness ==
    /\ SameProgress(Running, parked)
    /\ pc = "done"
    /\ Len(heap) > 2
    /\ Len(dst) > Len(src)

\* the next token of the running call is a closing delimiter
NextIsClose ==
    /\ pc = "loop"
    /\ LET t == Token(src, pos)
       IN  t.err = "nil" /\ t.tok.kind = "delim" /\ t.tok.text \in Closes

\* C13: at every point of format on a token stream with balanced delimiters
\* the frame stack holds at least one frame, its bottom frame is the frame
\* newFormatterState made, which is neither object nor array, and when the
\* next token is a closing delimiter, so that leaveFrame is about to be
\* applied, the root is not the only frame on the stack.
C13_RootStays ==
    /\ Len(frames) >= 1
    /\ frames[1] = 1
    /\ ~inArrayOrObject(heap[frames[1]])
    /\ NextIsClose => Len(frames) >= 2

\* the close of a container nested in another one is about to be processed
C13_Witness ==
    /\ src \in Docs
    /\ NextIsClose
    /\ Len(frames) = 3
    /\ \E j \in 1..pos : src[j] \in Closes

\* the containers open after the first n lexemes of s
OpenAt(s, n) ==
    Cardinality({j \in 1..n : s[j] \in Opens}) -
    Cardinality({j \in 1..n : s[j] \in Closes})

\* C14: after any sequence of opening and closing delimiters every frame's
\* depth equals its position in the frame stack, the root having depth 0
\* and the i-th frame above it depth i, and the depth of the active frame
\* equals the number of containers currently open.
C14_DepthIsPosition ==
    /\ \A i \in 1..Len(frames) : heap[frames[i]].indent = i - 1
    /\ heap[TopFrame(frames)].indent = OpenAt(src, pos)

\* two containers are open after a third, nested in them, was closed
C14_Witness ==
    /\ Len(frames) = 3
    /\ \E j \in 1..pos : src[j] \in Closes
    /\ OpenAt(src, pos) = 2

\* the lexeme is a string
IsString(lex) == Head(lex) = "\""

RECURSIVE Enclosing(_, _, _)
\* the index of the opening delimiter of the innermost container that is
\* open after lexeme j of s, n closed containers being skipped on the way
\* back; 0 at the root
Enclosing(s, j, n) ==
    IF j = 0 THEN 0
    ELSE IF s[j] \in Closes THEN Enclosing(s, j - 1, n + 1)
    ELSE IF s[j] \in Opens
         THEN (IF n = 0 THEN j ELSE Enclosing(s, j - 1, n - 1))
         ELSE Enclosing(s, j - 1, n)

\* the innermost container open in front of lexeme j of s is an object
InObjectAt(s, j) ==
    LET i == Enclosing(s, j - 1, 0)
    IN  i > 0 /\ s[i] = LBrace

\* lexeme j of s is a string in key position: the first token of an object
\* or the first after a comma of an object
KeyAt(s, j) ==
    /\ IsString(s[j])
    /\ j > 1
    /\ s[j - 1] \in {LBrace, Comma}
    /\ InObjectAt(s, j)

\* the category each string token consumed so far has by its position
StringRoles ==
    LET done == SelectSeq([j \in 1..pos |-> j], LAMBDA j : IsString(src[j]))
    IN  [k \in 1..Len(done) |-> IF KeyAt(src, done[k]) THEN Escape["field"]
                                                        ELSE Escape["string"]]

\* the colors of the strings written so far, in order
StringPaints == SelectSeq(dst, LAMBDA c : c \in {Escape["field"], Escape["string"]})

RECURSIVE NextReset(_, _)
\* the index of the first reset sequence of text at or after i
NextReset(text, i) ==
    IF i > Len(text) \/ text[i] = Reset THEN i ELSE NextReset(text, i + 1)

\* the first character written after the colored token that starts at dst[k]
AfterPaint(k) ==
    LET a == NextReset(dst, k + 1) + 1
        b == IF a <= Len(dst) /\ dst[a] \in Escapes THEN a + 1 ELSE a
    IN  IF b <= Len(dst) THEN dst[b] ELSE ""

\* C15: in every object the tokens alternate between key and value role,
\* starting with key, also after a nested container value was opened and
\* closed: the strings written so far carry, in order, the field-name color
\* where the string is in key position of its object and the string-value
\* color everywhere else (value of a field, array element, root), and a
\* string is followed by a colon exactly when it was painted as a field name.
C15_KeyValueAlternate ==
    /\ StringPaints = StringRoles
    /\ \A k \in 1..Len(dst) :
           /\ dst[k] = Escape["field"] => AfterPaint(k) = ":"
           /\ dst[k] = Escape["string"] => AfterPaint(k) # ":"

\* a field name was written after the container value before it was closed,
\* and a string was written as a value
C15_Witness ==
    /\ src \in Docs
    /\ \E j \in 3..pos : KeyAt(src, j) /\ src[j - 2] \in Closes
    /\ \E k \in 1..Len(dst) : dst[k] = Escape["string"]

RECURSIVE Marks(_, _)
\* what text holds from index i on, piece by piece: "T" for a colored
\* token, "," for a comma, ":" for a colon, "_" for any other character
Marks(text, i) ==
    IF i > Len(text) THEN << >>
    ELSE LET c == text[i] IN
         IF c \in Escapes /\ c # Reset
         THEN LET r == NextReset(text, i + 1)
              IN  <<IF r = i + 2 /\ text[i + 1] \in {",", ":"} THEN text[i + 1] ELSE "T">>
                  \o Marks(text, r + 1)
         ELSE <<IF c \in {",", ":"} THEN c ELSE "_">> \o Marks(text, i + 1)

\* the tokens consumed with the separators the document has between them
\* and after the last of them: in a document a comma stands after a value
\* exactly when a sibling follows it in its container
Consumed ==
    LET n == IF pos < Len(src) /\ src[pos + 1] \in {Comma, Colon} THEN pos + 1 ELSE pos
    IN  [j \in 1..n |-> IF src[j] = Comma THEN ","
                        ELSE IF src[j] = Colon THEN ":" ELSE "T"]

\* C16: for a single JSON document format emits a comma immediately after an
\* array element or a field value (a scalar, or the closing delimiter of a
\* container value) if and only if another sibling follows in the same
\* container, exactly one comma in that case, and no comma after a field
\* name, an opening delimiter, the last element of a container or the
\* top-level value: when format returns, tokens, commas and colons have
\* been written in the order the document has them, and every comma written
\* stands directly after a token.
C16_CommaIffSibling ==
    Finished =>
        LET ms == Marks(dst, Len(dst0) + 1)
        IN  /\ SelectSeq(ms, LAMBDA m : m # "_") = Consumed
            /\ \A k \in 1..Len(ms) : ms[k] = "," => k > 1 /\ ms[k - 1] = "T"

\* format returned for a document with a comma after a scalar and a comma
\* after the closing delimiter of a container value
C16_Witness ==
    /\ Finished
    /\ \E j \in 1..(Len(src) - 1) : src[j] \in Closes /\ src[j + 1] = Comma
    /\ \E j \in 1..(Len(src) - 1) : src[j] \in Scalars /\ src[j + 1] = Comma
    /\ \E k \in 1..Len(dst) : dst[k] = ","

\* the characters a JSON value of the documents starts with
ValueStarts == {"{", "[", "\"", "1", "n", "t", "f"}

\* C17: for every object field exactly one space and nothing else stands
\* between the colon after the field name and the field's value, whether
\* the value is a scalar or the opening delimiter of an empty or non-empty
\* container.
C17_OneSpaceAfterColon ==
    Finished =>
        LET o == Output
        IN  \A k \in 1..Len(o) :
                o[k] = ":" => /\ k + 2 <= Len(o)
                              /\ o[k + 1] = " "
                              /\ o[k + 2] \in ValueStarts

\* this step processes the closing delimiter of a container that is not empty
ClosesNonEmpty ==
    /\ NextIsClose
    /\ ~isEmpty(heap[frame])
    /\ pos' # pos

\* the step writes, colors stripped, the prefix, d indent units and then the
\* closing delimiter it consumed
WritesCloserAt(d) ==
    IsPrefixOf(Prefix \o Repeat(Indent, d) \o src[pos'],
               Strip(SubSeq(dst', Len(dst) + 1, Len(dst'))))

NextIsPlainScalar ==
    /\ pc = "loop"
    /\ LET t == Token(src, pos)
       IN  t.err = "nil" /\ t.tok.kind \in {"number", "bool", "null"}

\* C19: for a number, boolean or null token the decision whether to emit
\* indentation before it is the decision made for a value string in the same
\* position: at the root, as an array element, as a field value.
C19_ScalarIndentLikeString ==
    NextIsPlainScalar =>
        printIndentFlag(Token(src, pos).tok.kind, heap[frame]) =
            printIndentFlag("string", heap[frame])

\* the calls of every entry point under one prefix and one indent unit
\* that are not empty: no condition of the loop reads them
InitLive ==
    /\ Init
    /\ entry # "Marshal" => Prefix = <<"p">> /\ Indent = <<"i">>

\* format runs on: the loop of format goes to its next iteration as long as
\* there is one
SpecLive == InitLive /\ [][Next]_vars /\ WF_vars(Next)

\* the iteration took exactly the next token from the decoder: everything
\* between the old and the new offset is a comma or a colon, and the lexeme
\* at the new offset is a token
TakesNextToken ==
    /\ pos' > pos
    /\ \A j \in (pos + 1)..(pos' - 1) : src[j] \in {Comma, Colon}
    /\ src[pos'] \notin {Comma, Colon}

\* C20: for every finite token stream with balanced delimiters format
\* terminates, every iteration that goes on takes exactly the next token from
\* the decoder, so that each token is taken once and in order, the loop
\* stops at the decoder's end of input, and when format returns without
\* error the whole stream is consumed and the frame stack holds only the
\* root frame.
C20_Terminates ==
    /\ <>(pc # "loop")
    /\ [][pc' = "loop" => TakesNextToken]_vars
    /\ [](pc = "done" => /\ pos = Len(src)
                         /\ Token(src, pos).err = "EOF"
                         /\ frames = <<1>>
                         /\ ~inArrayOrObject(heap[TopFrame(frames)]))

\* format returned nil after it had pushed and popped nested containers
C20_Witness ==
    /\ pc = "done"
    /\ src \in Docs
    /\ Len(heap) > 3
    /\ frames = <<1>>

\* C21: at the start of every iteration of the loop of format the local
\* variable frame is the top of the frame stack, the frame fs.frame()
\* returns, so that the frame consulted for the indentation, comma and
\* key/value decisions is the frame formatToken and printIndent consult;
\* this holds after any sequence of enterFrame and leaveFrame steps.
C21_LocalFrameIsTop ==
    frame = frames[Len(frames)]

\* an iteration starts after a container nested in another was entered and
\* left, with a token still to come
C21_Witness ==
    /\ pc = "loop"
    /\ Len(frames) = 2
    /\ pos < Len(src)
    /\ \E j \in 1..pos : src[j] \in Closes
    /\ Len(heap) > 2

====
